---- MODULE Spec2Model ----
(***************************************************************************)
(* Model of the ingestion-to-retrieval pipeline of Bank_Account_Analyser:  *)
(*   chunking.py          split_into_sentences, tokens_length,             *)
(*                        chunk_sentences_to_chunks, chunk_page_text       *)
(*   pdf_utils.py, app.py pdf_pages_text, ingest_files                     *)
(*   embeddings_index.py  EmbeddingsIndex build / save / load / query      *)
(*   streamlit_app.py     session state, build / upload / save / ask       *)
(*                        handlers; app.py interactive_query_loop          *)
(*                                                                         *)
(* A text is modelled as the sequence of its whitespace-separated words    *)
(* (str.split()); " ".join and strip() are then concatenation of word      *)
(* sequences, and the empty string is the empty sequence.                  *)
(***************************************************************************)
EXTENDS Integers, Sequences, FiniteSets, TLC

VARIABLES
    \* ---- chunking.py: one call of chunk_page_text ----
    TIKTOKEN_AVAILABLE,   \* chunking.py:4-8, whether the import succeeded
    page_text,            \* argument page_text (sequence of words)
    max_tokens,           \* argument max_tokens
    overlap_tokens,       \* argument overlap_tokens
    chunks,               \* local `chunks` at line 81, before the overlap step
    results,              \* the list chunk_page_text returns
    cpc,                  \* "call" before the call, "done" after it returned
    \* ---- app.py: one call of ingest_files ----
    PYMUPDF_AVAILABLE,    \* pdf_utils.py:5-9
    fs,                   \* the files named by `paths`, in input order
    use_selectable_text,  \* argument use_selectable_text
    ipc,                  \* position in ingest_files
    path_i,               \* index of the path being processed (for p in paths)
    pages,                \* local `pages` of the current PDF
    page_j,               \* index into `pages` (for page_no, txt in pages)
    images,               \* local `images`: "None" or "loaded"
    raster_calls,         \* per input path, the number of pdf_to_images calls
    chunks_meta,          \* local `chunks_meta`, the value returned
    \* ---- embeddings_index.py: one EmbeddingsIndex and its two files ----
    index,                \* self.index: None, or the vectors the index holds
    passages,             \* self.passages
    index_file,           \* the file at index_path: absent, or the vectors written
    passages_file,        \* the file at passages_path: absent, or the list written
    last_op,              \* the last method called
    last_result,          \* "ok" or the exception it raised
    last_args,            \* the arguments of the last call
    retrieved,            \* what the last call returned: a query's list, else nothing
    populated,            \* the successful build/load calls on this object so far:
                          \* "no", one "build", one "load", or "again" (several)
    saved_obj,            \* self.index and self.passages as of the last successful save
    \* the front ends: streamlit_app.py and the command line of app.py
    emb,                  \* st.session_state["emb"]; the emb of main() in app.py
    index_built,          \* st.session_state["index_built"]
    num_passages,         \* st.session_state["num_passages"]
    handler,              \* the handler that ran last and how it ended
    merge_in,             \* the passages the last merge combined
    asked                 \* the last question: what was retrieved, the generation calls

chunkVars  == <<TIKTOKEN_AVAILABLE, page_text, max_tokens, overlap_tokens, chunks, results, cpc>>
ingestVars == <<PYMUPDF_AVAILABLE, fs, use_selectable_text, ipc, path_i, pages, page_j,
                images, raster_calls, chunks_meta>>
indexVars  == <<index, passages, index_file, passages_file, last_op, last_args, last_result,
                retrieved, populated, saved_obj>>
sessionVars == <<emb, index_built, num_passages, handler, merge_in, asked>>
vars == <<chunkVars, ingestVars, indexVars, sessionVars>>

\* ------------------------------------------------------------------ bounds
MaxWords == 5          \* words in a page text
MaxTok == 4            \* largest max_tokens tried
MaxOverlap == 3        \* largest overlap_tokens tried
MaxDocs == 2           \* paths in one ingest_files call
MaxPages == 2          \* pages of a PDF
MaxPassages == 2       \* passages given to one build or held by one uploaded index
MaxTopK == 3           \* largest top_k tried

\* ------------------------------------------------------------ generic helpers
Min(a, b) == IF a <= b THEN a ELSE b
Max(a, b) == IF a >= b THEN a ELSE b

RECURSIVE Flatten(_)
\* " ".join(list of texts): the words of all of them, in order
Flatten(ss) == IF ss = <<>> THEN <<>> ELSE Head(ss) \o Flatten(Tail(ss))

SeqsUpTo(S, n) == UNION {[1..k -> S] : k \in 0..n}

\* --------------------------------------------------------------- chunking.py
\* Words of the model's alphabet; the ones ending in . ? or ! end a sentence.
Words == {"a", "xy", "a.", "xy."}
EndsSentence(w) == w \in {"a.", "xy."}

\* Number of tokens the gpt2 encoding gives a word (external tiktoken library).
BpeTokens(w) == CASE w = "a"   -> 1
                  [] w = "xy"  -> 2
                  [] w = "a."  -> 2
                  [] w = "xy." -> 3

RECURSIVE SumBpe(_)
SumBpe(text) == IF text = <<>> THEN 0 ELSE BpeTokens(Head(text)) + SumBpe(Tail(text))

\* len(enc.encode(text)): the tokens of the words, plus one token for a trailing
\* blank (gpt2 encodes trailing whitespace as a token of its own).
EncodeLen(text, trailingBlank) == SumBpe(text) + (IF trailingBlank THEN 1 ELSE 0)

\* tokens_length(text): tiktoken when available, else max(1, int(len(words) * 1.3))
tokens_length(text, trailingBlank) ==
    IF TIKTOKEN_AVAILABLE
    THEN EncodeLen(text, trailingBlank)
    ELSE Max(1, (13 * Len(text)) \div 10)

RECURSIVE SplitLoop(_, _, _)
\* _SENT_SPLIT_RE.split: cut at the whitespace that follows a word ending in . ? !
SplitLoop(text, cur, out) ==
    IF text = <<>> THEN (IF cur = <<>> THEN out ELSE Append(out, cur))
    ELSE IF EndsSentence(Head(text))
         THEN SplitLoop(Tail(text), <<>>, Append(out, Append(cur, Head(text))))
         ELSE SplitLoop(Tail(text), Append(cur, Head(text)), out)

split_into_sentences(text) == IF text = <<>> THEN <<>> ELSE SplitLoop(text, <<>>, <<>>)

RECURSIVE WordLoop(_, _, _)
\* lines 53-61: st = [chunks, piece, piece_tokens]
WordLoop(words, M, st) ==
    IF words = <<>> THEN st
    ELSE LET w == Head(words)
             w_tokens == tokens_length(<<w>>, TRUE)
         IN IF st.piece_tokens + w_tokens > M
            THEN WordLoop(Tail(words), M,
                          [chunks |-> Append(st.chunks, st.piece),
                           piece |-> <<w>>, piece_tokens |-> w_tokens])
            ELSE WordLoop(Tail(words), M,
                          [chunks |-> st.chunks,
                           piece |-> Append(st.piece, w),
                           piece_tokens |-> st.piece_tokens + w_tokens])

\* flush(): lines 39-44, on st = [chunks, cur, cur_tokens]
flush(st) ==
    [chunks |-> IF st.cur # <<>> THEN Append(st.chunks, Flatten(st.cur)) ELSE st.chunks,
     cur |-> <<>>, cur_tokens |-> 0]

\* lines 72-78 (and 63-69): append text to the buffer, flushing first if it does not fit
Buffer(st, text, toks, M) ==
    IF st.cur_tokens + toks <= M
    THEN [chunks |-> st.chunks, cur |-> Append(st.cur, text), cur_tokens |-> st.cur_tokens + toks]
    ELSE LET f == flush(st)
         IN [chunks |-> f.chunks, cur |-> <<text>>, cur_tokens |-> toks]

\* lines 48-70: a sentence longer than max_tokens is split by words
LongSentence(st, sent, M) ==
    LET ws == WordLoop(sent, M, [chunks |-> st.chunks, piece |-> <<>>, piece_tokens |-> 0])
        st1 == [chunks |-> ws.chunks, cur |-> st.cur, cur_tokens |-> st.cur_tokens]
    IN IF ws.piece # <<>> THEN Buffer(st1, ws.piece, ws.piece_tokens, M) ELSE st1

RECURSIVE SentLoop(_, _, _)
\* lines 46-78: for sent in sentences
SentLoop(sentences, M, st) ==
    IF sentences = <<>> THEN st
    ELSE LET sent == Head(sentences)
             sent_tokens == tokens_length(sent, FALSE)
         IN IF sent_tokens > M
            THEN SentLoop(Tail(sentences), M, LongSentence(st, sent, M))
            ELSE SentLoop(Tail(sentences), M, Buffer(st, sent, sent_tokens, M))

\* lines 33-81: the chunks before the overlap step
PackChunks(sentences, M) ==
    IF sentences = <<>> THEN <<>>
    ELSE LET st == SentLoop(sentences, M, [chunks |-> <<>>, cur |-> <<>>, cur_tokens |-> 0])
         IN IF st.cur # <<>> THEN Append(st.chunks, Flatten(st.cur)) ELSE st.chunks

\* Variant of ApproxWords without the minimum of one word.
ApproxWordsNoMin(ov) == (10 * ov) \div 13

\* line 89: approx_words = max(1, int(overlap_tokens / 1.3))
ApproxWords(ov) == Max(1, (10 * ov) \div 13)

\* Variant of OverlapWords that prepends the whole previous chunk.
OverlapWordsAll(prev, ov) == prev

\* line 90: the last approx_words words of prev, or all of prev if it has fewer
OverlapWords(prev, ov) ==
    IF Len(prev) >= ApproxWords(ov)
    THEN SubSeq(prev, Len(prev) - ApproxWords(ov) + 1, Len(prev))
    ELSE prev

RECURSIVE OverlapLoop(_, _, _, _)
\* lines 86-92: for i in range(1, len(chunks)), prev = overlapped[-1]
OverlapLoop(cs, i, ov, overlapped) ==
    IF i > Len(cs) THEN overlapped
    ELSE OverlapLoop(cs, i + 1, ov,
                     Append(overlapped,
                            OverlapWords(overlapped[Len(overlapped)], ov) \o cs[i]))

\* lines 83-95
ApplyOverlap(cs, ov) ==
    IF ov > 0 /\ Len(cs) > 1 THEN OverlapLoop(cs, 2, ov, <<cs[1]>>) ELSE cs

chunk_sentences_to_chunks(sentences, M, ov) == ApplyOverlap(PackChunks(sentences, M), ov)

\* line 108: f"(source:{source} page:{page_no} chunk:{i})\n{c}"
Label(source, page_no, i, c) ==
    <<"(source:", source, " page:", page_no, " chunk:", i, ")", "\n", c>>

\* The passages numbered as enumerate(chunks) would number them, from 0
MakeResultsFromZero(cs, source, page_no) ==
    [i \in 1..Len(cs) |->
        [source |-> source, page |-> page_no, chunk_index |-> i - 1, text |-> cs[i],
         label |-> Label(source, page_no, i - 1, cs[i])]]

\* lines 104-116
MakeResults(cs, source, page_no) ==
    [i \in 1..Len(cs) |->
        [source |-> source, page |-> page_no, chunk_index |-> i, text |-> cs[i],
         label |-> Label(source, page_no, i, cs[i])]]

chunk_page_text(text, source, page_no, M, ov) ==
    MakeResults(chunk_sentences_to_chunks(split_into_sentences(text), M, ov), source, page_no)

\* ------------------------------------------------ values of the parts at rest
IngestIdle ==
    /\ PYMUPDF_AVAILABLE = TRUE /\ fs = <<>> /\ use_selectable_text = TRUE
    /\ ipc = "idle" /\ path_i = 0 /\ pages = <<>> /\ page_j = 0 /\ images = "None"
    /\ raster_calls = <<>> /\ chunks_meta = <<>>

IndexIdle ==
    /\ index = [built |-> FALSE, vectors |-> <<>>] /\ passages = <<>>
    /\ index_file = [exists |-> FALSE, data |-> <<>>]
    /\ passages_file = [exists |-> FALSE, data |-> <<>>]
    /\ last_op = "init" /\ last_result = "ok" /\ retrieved = <<>>
    /\ last_args = [ps |-> <<>>, question |-> "", top_k |-> 0]
    /\ populated = "no" /\ saved_obj = [vectors |-> <<>>, passages |-> <<>>]

\* streamlit_app.py lines 21-26, and no handler has run
SessionIdle ==
    /\ emb = [held |-> FALSE, index |-> [built |-> FALSE, vectors |-> <<>>], passages |-> <<>>]
    /\ index_built = FALSE /\ num_passages = 0
    /\ handler = [name |-> "init", result |-> "ok"]
    /\ merge_in = [existing |-> <<>>, uploaded |-> <<>>]
    /\ asked = [question |-> "", retrieved |-> <<>>, calls |-> <<>>]

ChunkIdle ==
    /\ TIKTOKEN_AVAILABLE = FALSE /\ page_text = <<>> /\ max_tokens = 0 /\ overlap_tokens = 0
    /\ chunks = <<>> /\ results = <<>> /\ cpc = "idle"

\* ------------------------------------------- the chunker applied to one page
ChunkInit ==
    /\ TIKTOKEN_AVAILABLE \in BOOLEAN
    /\ page_text \in SeqsUpTo(Words, MaxWords)
    /\ max_tokens \in 0..MaxTok
    /\ overlap_tokens \in 0..MaxOverlap
    /\ chunks = <<>> /\ results = <<>> /\ cpc = "call"
    /\ IngestIdle /\ IndexIdle /\ SessionIdle

\* chunk_page_text(page_text, "doc.pdf", 1, max_tokens, overlap_tokens)
ChunkPageText ==
    /\ cpc = "call"
    /\ chunks' = PackChunks(split_into_sentences(page_text), max_tokens)
    /\ results' = chunk_page_text(page_text, "doc.pdf", 1, max_tokens, overlap_tokens)
    /\ cpc' = "done"
    /\ UNCHANGED <<TIKTOKEN_AVAILABLE, page_text, max_tokens, overlap_tokens, ingestVars, indexVars,
                   sessionVars>>

ChunkNext == ChunkPageText

SpecChunker == ChunkInit /\ [][ChunkNext]_vars

\* ------------------------------------------------- pdf_utils.py and app.py
DEFAULT_MAX_TOKENS == 800
DEFAULT_OVERLAP_TOKENS == 150

\* Texts a page can carry: selectable text, text the OCR reads, or nothing.
SelText == <<"a", "xy.", "a.">>
OcrText == <<"xy", "a.", "a", "xy.">>

\* Pages of a PDF: with selectable text, or scanned (only the OCR finds text).
PageKinds == {[sel |-> SelText, ocr |-> OcrText],
              [sel |-> <<>>, ocr |-> OcrText]}

\* What a path can name: nothing, a PDF, an image PIL opens (with text on it
\* or blank), or any other file.
Files ==
    {[kind |-> "missing", pages |-> <<>>, ocr |-> <<>>],
     [kind |-> "image", pages |-> <<>>, ocr |-> OcrText],
     [kind |-> "image", pages |-> <<>>, ocr |-> <<>>],
     [kind |-> "other", pages |-> <<>>, ocr |-> <<>>]}
    \cup {[kind |-> "pdf", pages |-> ps, ocr |-> <<>>] : ps \in SeqsUpTo(PageKinds, MaxPages)}

\* os.path.basename(p): the model names a file by its position in `paths`
Name(i) == i

\* pdf_selectable_text: [] without PyMuPDF, else (i, page.get_text().strip()) per page
pdf_selectable_text(f) ==
    IF ~PYMUPDF_AVAILABLE THEN <<>>
    ELSE [i \in 1..Len(f.pages) |-> [page_no |-> i, txt |-> f.pages[i].sel]]

\* pdf_pages_text takes the selectable pages when asked to and there are some
UsesSelectable(f, use_selectable_first) ==
    use_selectable_first /\ pdf_selectable_text(f) # <<>>

\* pdf_pages_text: the selectable pages, else one (i, "") per rasterized image
pdf_pages_text(f, use_selectable_first) ==
    IF UsesSelectable(f, use_selectable_first)
    THEN pdf_selectable_text(f)
    ELSE [i \in 1..Len(f.pages) |-> [page_no |-> i, txt |-> <<>>]]

Chunked(text, i, page_no) == chunk_page_text(text, Name(i), page_no, max_tokens, overlap_tokens)

IngestInit ==
    /\ fs \in SeqsUpTo(Files, MaxDocs)
    /\ use_selectable_text \in BOOLEAN
    /\ PYMUPDF_AVAILABLE \in BOOLEAN
    /\ max_tokens \in {2, DEFAULT_MAX_TOKENS}
    /\ overlap_tokens = DEFAULT_OVERLAP_TOKENS
    /\ TIKTOKEN_AVAILABLE = FALSE
    /\ page_text = <<>> /\ chunks = <<>> /\ results = <<>> /\ cpc = "idle"
    /\ ipc = "loop" /\ path_i = 1 /\ pages = <<>> /\ page_j = 0 /\ images = "None"
    /\ raster_calls = [i \in 1..Len(fs) |-> 0]
    /\ chunks_meta = <<>>
    /\ IndexIdle /\ SessionIdle

ingestFrame == <<chunkVars, indexVars, sessionVars, PYMUPDF_AVAILABLE, fs, use_selectable_text>>

\* lines 19-21: the path does not exist
SkipMissing ==
    /\ ipc = "loop" /\ path_i <= Len(fs) /\ fs[path_i].kind = "missing"
    /\ path_i' = path_i + 1
    /\ UNCHANGED <<ingestFrame, ipc, pages, page_j, images, raster_calls, chunks_meta>>

\* lines 24-28: pages = pdf_pages_text(p, ...), which rasterizes in its fallback
OpenPdf ==
    /\ ipc = "loop" /\ path_i <= Len(fs) /\ fs[path_i].kind = "pdf"
    /\ pages' = pdf_pages_text(fs[path_i], use_selectable_text)
    /\ raster_calls' =
         IF UsesSelectable(fs[path_i], use_selectable_text) THEN raster_calls
         ELSE [raster_calls EXCEPT ![path_i] = @ + 1]
    /\ images' = "None" /\ page_j' = 1 /\ ipc' = "pages"
    /\ UNCHANGED <<ingestFrame, path_i, chunks_meta>>

\* lines 30-33: the page has text
PageWithText ==
    /\ ipc = "pages" /\ page_j <= Len(pages) /\ pages[page_j].txt # <<>>
    /\ chunks_meta' = chunks_meta \o Chunked(pages[page_j].txt, path_i, pages[page_j].page_no)
    /\ page_j' = page_j + 1
    /\ UNCHANGED <<ingestFrame, ipc, path_i, pages, images, raster_calls>>

\* lines 34-42: the page has no text; rasterize if `images` is None, then OCR
PageOcr ==
    /\ ipc = "pages" /\ page_j <= Len(pages) /\ pages[page_j].txt = <<>>
    /\ images' = "loaded"
    /\ raster_calls' =
         IF images = "None" THEN [raster_calls EXCEPT ![path_i] = @ + 1] ELSE raster_calls
    /\ chunks_meta' = chunks_meta \o
         Chunked(fs[path_i].pages[pages[page_j].page_no].ocr, path_i, pages[page_j].page_no)
    /\ page_j' = page_j + 1
    /\ UNCHANGED <<ingestFrame, ipc, path_i, pages>>

\* line 29: the page loop of the PDF ends
PdfDone ==
    /\ ipc = "pages" /\ page_j > Len(pages)
    /\ ipc' = "loop" /\ path_i' = path_i + 1
    /\ UNCHANGED <<ingestFrame, pages, page_j, images, raster_calls, chunks_meta>>

\* Variant of IngestImage that puts the image's chunks in front of the list.
IngestImagePrepend ==
    /\ ipc = "loop" /\ path_i <= Len(fs) /\ fs[path_i].kind = "image"
    /\ chunks_meta' = Chunked(fs[path_i].ocr, path_i, 1) \o chunks_meta
    /\ path_i' = path_i + 1
    /\ UNCHANGED <<ingestFrame, ipc, pages, page_j, images, raster_calls>>

\* lines 43-50: any other file is opened as an image and OCRed as page 1
IngestImage ==
    /\ ipc = "loop" /\ path_i <= Len(fs) /\ fs[path_i].kind = "image"
    /\ chunks_meta' = chunks_meta \o Chunked(fs[path_i].ocr, path_i, 1)
    /\ path_i' = path_i + 1
    /\ UNCHANGED <<ingestFrame, ipc, pages, page_j, images, raster_calls>>

\* line 46: Image.open raises on a file that is no image; nothing catches it
IngestUnsupported ==
    /\ ipc = "loop" /\ path_i <= Len(fs) /\ fs[path_i].kind = "other"
    /\ ipc' = "raised"
    /\ UNCHANGED <<ingestFrame, path_i, pages, page_j, images, raster_calls, chunks_meta>>

\* line 51: return chunks_meta
IngestReturn ==
    /\ ipc = "loop" /\ path_i > Len(fs)
    /\ ipc' = "returned"
    /\ UNCHANGED <<ingestFrame, path_i, pages, page_j, images, raster_calls, chunks_meta>>

IngestNext ==
    \/ SkipMissing \/ OpenPdf \/ PageWithText \/ PageOcr \/ PdfDone
    \/ IngestImage \/ IngestUnsupported \/ IngestReturn

SpecIngest == IngestInit /\ [][IngestNext]_vars

\* ------------------------------------------------------ embeddings_index.py
\* Passage labels and questions of the model.
Labels == {"p", "q"}
Questions == {"p", "q"}

\* embedder.encode + normalize_L2: the unit vector of a text, a function of the text
Embed(text) == [vec |-> text]

\* Inner product of the question's unit vector and a stored unit vector.
Score(question, v) == IF Embed(question) = v THEN 1 ELSE 0

\* self.index: None, or a faiss index holding a sequence of vectors
None == [built |-> FALSE, vectors |-> <<>>]
IndexOf(vs) == [built |-> TRUE, vectors |-> vs]

\* A path on disk: no file, or a file with its content
Absent == [exists |-> FALSE, data |-> <<>>]
FileOf(d) == [exists |-> TRUE, data |-> d]

\* Number of vectors self.index holds (index.ntotal); none when it is None.
VectorCount(ix) == Len(ix.vectors)

RECURSIVE Rank(_, _, _)
\* ids of `left` by descending score, equal scores by ascending id
Rank(ix, question, left) ==
    IF left = {} THEN <<>>
    ELSE LET best == CHOOSE i \in left : \A j \in left :
                        \/ Score(question, ix[i + 1]) > Score(question, ix[j + 1])
                        \/ Score(question, ix[i + 1]) = Score(question, ix[j + 1]) /\ i <= j
         IN <<best>> \o Rank(ix, question, left \ {best})

\* A search that returns the ids in index order instead of by score
SearchUnranked(ix, question, top_k) ==
    [j \in 1..top_k |-> IF j <= Len(ix) THEN j - 1 ELSE -1]

\* index.search(q_vec, top_k): exactly top_k ids, padded with -1
Search(ix, question, top_k) ==
    LET ranked == Rank(ix, question, 0..(Len(ix) - 1))
    IN [j \in 1..top_k |-> IF j <= Len(ranked) THEN ranked[j] ELSE -1]

RECURSIVE QueryLoop(_, _, _, _)
\* lines 47-52: ids outside [0, len(self.passages)) are skipped
QueryLoop(ids, ix, question, ps) ==
    IF ids = <<>> THEN <<>>
    ELSE LET id == Head(ids)
             rest == QueryLoop(Tail(ids), ix, question, ps)
         IN IF id < 0 \/ id >= Len(ps) THEN rest
            ELSE <<[id |-> id, score |-> Score(question, ix[id + 1]), passage |-> ps[id + 1]]>>
                 \o rest

\* lines 44-52: what query returns on an index holding vectors ix and passages ps
QueryResult(ix, ps, question, top_k) ==
    QueryLoop(Search(ix, question, top_k), ix, question, ps)

\* The arguments of a call: build's passages, query's question and top_k
NoArgs == [ps |-> <<>>, question |-> "", top_k |-> 0]
BuildArgs(ps) == [ps |-> ps, question |-> "", top_k |-> 0]
QueryArgs(question, top_k) == [ps |-> <<>>, question |-> question, top_k |-> top_k]

\* `populated` after one more successful build or load
Populate(op) == IF populated = "no" THEN op ELSE "again"

IndexInit ==
    /\ index = None /\ passages = <<>>
    /\ index_file = Absent /\ passages_file = Absent
    /\ last_op = "init" /\ last_result = "ok" /\ retrieved = <<>>
    /\ last_args = NoArgs
    /\ populated = "no" /\ saved_obj = [vectors |-> <<>>, passages |-> <<>>]
    /\ ChunkIdle /\ IngestIdle /\ SessionIdle

\* EmbeddingsIndex(), lines 11-16: a new object; the files stay as they are
New ==
    /\ last_op' = "new" /\ last_args' = NoArgs /\ last_result' = "ok"
    /\ index' = None /\ passages' = <<>>
    /\ retrieved' = <<>> /\ populated' = "no"
    /\ UNCHANGED <<chunkVars, ingestVars, sessionVars, index_file, passages_file, saved_obj>>

indexFrame == <<chunkVars, ingestVars, sessionVars>>

\* build, lines 18-25. outcome: what the external encoder and ANN structure do
Build(ps, outcome) ==
    /\ last_op' = "build" /\ last_args' = BuildArgs(ps)
    /\ IF ps = <<>>
       THEN /\ last_result' = "ValueError"
            /\ UNCHANGED <<passages, index, populated>>
       ELSE /\ passages' = ps
            /\ CASE outcome = "ok" ->
                      /\ index' = IndexOf([i \in 1..Len(ps) |-> Embed(ps[i])])
                      /\ last_result' = "ok"
                      /\ populated' = Populate("build")
                 [] outcome = "encode_fails" ->
                      /\ index' = index
                      /\ last_result' = "EncoderError"
                      /\ populated' = populated
                 [] outcome = "add_fails" ->
                      /\ index' = IndexOf(<<>>)
                      /\ last_result' = "AnnError"
                      /\ populated' = populated
    /\ retrieved' = <<>>
    /\ UNCHANGED <<indexFrame, index_file, passages_file, saved_obj>>

\* save, lines 27-32
Save ==
    /\ last_op' = "save" /\ last_args' = NoArgs
    /\ IF index = None
       THEN /\ last_result' = "RuntimeError"
            /\ UNCHANGED <<index_file, passages_file, saved_obj>>
       ELSE /\ index_file' = FileOf(index.vectors)
            /\ passages_file' = FileOf(passages)
            /\ saved_obj' = [vectors |-> index.vectors, passages |-> passages]
            /\ last_result' = "ok"
    /\ retrieved' = <<>>
    /\ UNCHANGED <<indexFrame, index, passages, populated>>

\* A load that reads the index file and leaves self.passages as it was
LoadIndexOnly(outcome) ==
    /\ last_op' = "load" /\ last_args' = NoArgs
    /\ IF ~index_file.exists \/ ~passages_file.exists
       THEN /\ last_result' = "FileNotFoundError"
            /\ UNCHANGED <<index, passages, populated>>
       ELSE CASE outcome = "ok" ->
                   /\ index' = IndexOf(index_file.data)
                   /\ passages' = passages
                   /\ last_result' = "ok"
                   /\ populated' = Populate("load")
              [] outcome = "read_index_fails" ->
                   /\ last_result' = "ReadIndexError"
                   /\ UNCHANGED <<index, passages, populated>>
              [] outcome = "read_passages_fails" ->
                   /\ index' = IndexOf(index_file.data)
                   /\ passages' = passages
                   /\ last_result' = "JSONDecodeError"
                   /\ populated' = populated
    /\ retrieved' = <<>>
    /\ UNCHANGED <<indexFrame, index_file, passages_file, saved_obj>>

\* load, lines 34-39. outcome: whether faiss.read_index and json.load succeed
Load(outcome) ==
    /\ last_op' = "load" /\ last_args' = NoArgs
    /\ IF ~index_file.exists \/ ~passages_file.exists
       THEN /\ last_result' = "FileNotFoundError"
            /\ UNCHANGED <<index, passages, populated>>
       ELSE CASE outcome = "ok" ->
                   /\ index' = IndexOf(index_file.data)
                   /\ passages' = passages_file.data
                   /\ last_result' = "ok"
                   /\ populated' = Populate("load")
              [] outcome = "read_index_fails" ->
                   /\ last_result' = "ReadIndexError"
                   /\ UNCHANGED <<index, passages, populated>>
              [] outcome = "read_passages_fails" ->
                   /\ index' = IndexOf(index_file.data)
                   /\ passages' = passages
                   /\ last_result' = "JSONDecodeError"
                   /\ populated' = populated
    /\ retrieved' = <<>>
    /\ UNCHANGED <<indexFrame, index_file, passages_file, saved_obj>>

\* query, lines 41-52
Query(question, top_k) ==
    /\ last_op' = "query" /\ last_args' = QueryArgs(question, top_k)
    /\ IF index = None
       THEN /\ last_result' = "RuntimeError"
            /\ retrieved' = <<>>
       ELSE /\ retrieved' = QueryResult(index.vectors, passages, question, top_k)
            /\ last_result' = "ok"
    /\ UNCHANGED <<indexFrame, index, passages, index_file, passages_file, populated, saved_obj>>

IndexNext ==
    \/ New
    \/ \E ps \in SeqsUpTo(Labels, MaxPassages),
          outcome \in {"ok", "encode_fails", "add_fails"} : Build(ps, outcome)
    \/ Save
    \/ \E outcome \in {"ok", "read_index_fails", "read_passages_fails"} : Load(outcome)
    \/ \E question \in Questions, top_k \in 1..MaxTopK : Query(question, top_k)

SpecIndex == IndexInit /\ [][IndexNext]_vars

\* The use of one stored index: an object as its build calls left it (one
\* build, or a successful build and then another build), then any calls of
\* save, load and query on it and on new objects over the same two files.
BuildOutcomes == {"ok", "encode_fails", "add_fails"}
Encode(ps) == [i \in 1..Len(ps) |-> Embed(ps[i])]

StoreInit ==
    /\ \E first \in SeqsUpTo(Labels, MaxPassages),
          ps \in SeqsUpTo(Labels, MaxPassages) \ {<<>>},
          outcome \in BuildOutcomes :
          LET before == IF first = <<>> THEN None ELSE IndexOf(Encode(first))
              earlier == IF first = <<>> THEN "no" ELSE "build"
          IN /\ passages = ps
             /\ index = CASE outcome = "ok" -> IndexOf(Encode(ps))
                           [] outcome = "encode_fails" -> before
                           [] outcome = "add_fails" -> IndexOf(<<>>)
             /\ last_result = CASE outcome = "ok" -> "ok"
                                 [] outcome = "encode_fails" -> "EncoderError"
                                 [] outcome = "add_fails" -> "AnnError"
             /\ populated = IF outcome # "ok" THEN earlier
                            ELSE IF first = <<>> THEN "build" ELSE "again"
             /\ last_args = BuildArgs(ps)
    /\ last_op = "build" /\ retrieved = <<>>
    /\ index_file = Absent /\ passages_file = Absent
    /\ saved_obj = [vectors |-> <<>>, passages |-> <<>>]
    /\ ChunkIdle /\ IngestIdle /\ SessionIdle

StoreNext ==
    \/ New
    \/ Save
    \/ \E outcome \in {"ok", "read_index_fails", "read_passages_fails"} : Load(outcome)
    \/ \E question \in Questions, top_k \in 1..MaxTopK : Query(question, top_k)

SpecStore == StoreInit /\ [][StoreNext]_vars

\* ------------------------------------------- streamlit_app.py and app.py main
\* The passage labels of uploads and the questions asked ("" is a blank one).
UploadLabels == {"a", "b", "c"}
AskQuestions == {"", "b", "c"}
WEB_TOP_K == 8
CLI_TOP_K == 4

NoEmb == [held |-> FALSE, index |-> None, passages |-> <<>>]
EmbOf(ix, ps) == [held |-> TRUE, index |-> IndexOf(ix), passages |-> ps]
NoMerge == [existing |-> <<>>, uploaded |-> <<>>]
NotAsked == [question |-> "", retrieved |-> <<>>, calls |-> <<>>]
Ran(name, result) == [name |-> name, result |-> result]

\* genai_client.ask_gemini(client, question, passages): one generation request
GenCall(question, top_texts) == [question |-> question, passages |-> top_texts]

\* What the front-end handlers leave alone: all but the session and the two files
sessionFrame == <<chunkVars, ingestVars, index, passages, last_op, last_args, last_result,
                  retrieved, populated, saved_obj>>

SessionInit ==
    /\ SessionIdle /\ ChunkIdle /\ IngestIdle /\ IndexIdle

\* The handler ended without touching the session or the files
Untouched(name, result) ==
    /\ handler' = Ran(name, result)
    /\ merge_in' = NoMerge /\ asked' = NotAsked
    /\ UNCHANGED <<sessionFrame, emb, index_built, num_passages, index_file, passages_file>>

\* e.save(index_filename, passages_filename) when `saved`, else the files stay
WriteFiles(e, saved) ==
    IF saved
    THEN /\ index_file' = FileOf(e.index.vectors)
         /\ passages_file' = FileOf(e.passages)
    ELSE UNCHANGED <<index_file, passages_file>>

\* streamlit_app.py lines 72-89 with build_index_from_chunks (app.py 53-60);
\* labels are the labels of the chunks ingest_files returned
BuildFromUploads(labels, outcome) ==
    IF outcome = "ingest_fails"
    THEN Untouched("build", "build_failed")
    ELSE IF labels = <<>>
    THEN Untouched("build", "no_text")
    ELSE IF outcome # "ok"
    THEN Untouched("build", "build_failed")
    ELSE LET built == EmbOf(Encode(labels), labels)
         IN /\ WriteFiles(built, TRUE)
            /\ emb' = built
            /\ index_built' = TRUE
            /\ num_passages' = Len(built.passages)
            /\ handler' = Ran("build", "built")
            /\ merge_in' = NoMerge /\ asked' = NotAsked
            /\ UNCHANGED sessionFrame

\* lines 94-96: the button without files
UploadNoFiles == Untouched("upload", "no_files")

\* lines 126-127: the .index or the .json file is not among the uploaded files
UploadIncomplete == Untouched("upload", "not_found")

\* lines 131-135: load raises; the outer except (line 196) reports it
UploadLoadFails == Untouched("upload", "load_failed")

\* lines 145-158: no index in memory, or an empty one: the uploaded one is
\* taken; `saved`: autosave_merged is set and the save succeeded
UploadAdopt(ps, saved) ==
    /\ ~emb.held \/ Len(emb.passages) = 0
    /\ LET emb_uploaded == EmbOf(Encode(ps), ps)
           uploaded_count == Len(emb_uploaded.passages)
       IN /\ emb' = emb_uploaded
          /\ index_built' = TRUE
          /\ num_passages' = uploaded_count
          /\ WriteFiles(emb_uploaded, saved)
    /\ handler' = Ran("upload", "adopted")
    /\ merge_in' = NoMerge /\ asked' = NotAsked
    /\ UNCHANGED sessionFrame

RECURSIVE DedupeLoop(_, _, _)
\* lines 166-172
DedupeLoop(combined_passages, seen, deduped_passages) ==
    IF combined_passages = <<>> THEN deduped_passages
    ELSE LET p == Head(combined_passages)
         IN IF p \in seen
            THEN DedupeLoop(Tail(combined_passages), seen, deduped_passages)
            ELSE DedupeLoop(Tail(combined_passages), seen \cup {p},
                            Append(deduped_passages, p))

Reverse(q) == [i \in 1..Len(q) |-> q[Len(q) + 1 - i]]

\* A dedupe that keeps the last occurrence of each passage
DedupeKeepLast(combined_passages) ==
    Reverse(DedupeLoop(Reverse(combined_passages), {}, <<>>))

Dedupe(combined_passages) ==
    DedupeLoop(combined_passages, {}, <<>>)

\* A merge that puts the new object into the session whether or not its build succeeded
UploadMergeUnguarded(ps, outcome, saved) ==
    /\ emb.held /\ Len(emb.passages) > 0
    /\ LET emb_existing == emb
           combined_passages == emb_existing.passages \o ps
           deduped_passages == Dedupe(combined_passages)
           new_emb == EmbOf(Encode(deduped_passages), deduped_passages)
       IN IF outcome = "ok"
          THEN /\ emb' = new_emb
               /\ index_built' = TRUE
               /\ num_passages' = Len(new_emb.passages)
               /\ WriteFiles(new_emb, saved)
               /\ handler' = Ran("upload", "merged")
               /\ merge_in' = [existing |-> emb_existing.passages, uploaded |-> ps]
          ELSE /\ handler' = Ran("upload", "merge_failed")
               /\ merge_in' = NoMerge
               /\ emb' = [held |-> TRUE, index |-> None, passages |-> deduped_passages]
               /\ UNCHANGED <<index_built, num_passages, index_file, passages_file>>
    /\ asked' = NotAsked
    /\ UNCHANGED sessionFrame

\* lines 159-193: merge with the index in memory and rebuild
UploadMerge(ps, outcome, saved) ==
    /\ emb.held /\ Len(emb.passages) > 0
    /\ LET emb_existing == emb
           combined_passages == emb_existing.passages \o ps
           deduped_passages == Dedupe(combined_passages)
           new_emb == EmbOf(Encode(deduped_passages), deduped_passages)
       IN IF outcome = "ok"
          THEN /\ emb' = new_emb
               /\ index_built' = TRUE
               /\ num_passages' = Len(new_emb.passages)
               /\ WriteFiles(new_emb, saved)
               /\ handler' = Ran("upload", "merged")
               /\ merge_in' = [existing |-> emb_existing.passages, uploaded |-> ps]
          ELSE /\ handler' = Ran("upload", "merge_failed")
               /\ merge_in' = NoMerge
               /\ UNCHANGED <<emb, index_built, num_passages, index_file, passages_file>>
    /\ asked' = NotAsked
    /\ UNCHANGED sessionFrame

\* lines 210-217 and 220-245: the save button and the ZIP button both save
\* the index in memory under the two file names
SaveIndex(button, saved) ==
    /\ index_built /\ emb.held
    /\ WriteFiles(emb, saved)
    /\ handler' = Ran(button, IF saved THEN "saved" ELSE "save_failed")
    /\ merge_in' = NoMerge /\ asked' = NotAsked
    /\ UNCHANGED <<sessionFrame, emb, index_built, num_passages>>

\* A front end that asks the generation service whatever was retrieved
AnswerAlways(name, question, top_k) ==
    LET found == QueryResult(emb.index.vectors, emb.passages, question, top_k)
        top_texts == [i \in 1..Len(found) |-> found[i].passage]
    IN /\ asked' = [question |-> question, retrieved |-> found,
                    calls |-> <<GenCall(question, top_texts)>>]
       /\ handler' = Ran(name, IF found = <<>> THEN "no_passages" ELSE "answered")

\* retrieved = emb.query(question, top_k); ask_gemini only if something came back
Answer(name, question, top_k) ==
    LET found == QueryResult(emb.index.vectors, emb.passages, question, top_k)
        top_texts == [i \in 1..Len(found) |-> found[i].passage]
    IN /\ asked' = [question |-> question, retrieved |-> found,
                    calls |-> IF found = <<>> THEN <<>>
                              ELSE <<GenCall(question, top_texts)>>]
       /\ handler' = Ran(name, IF found = <<>> THEN "no_passages" ELSE "answered")

\* streamlit_app.py lines 254-271: the Ask Gemini button
AskGemini(question, client_ok) ==
    /\ index_built /\ emb.held
    /\ IF question = ""
       THEN handler' = Ran("ask", "ignored") /\ asked' = NotAsked
       ELSE IF ~client_ok
       THEN handler' = Ran("ask", "no_client") /\ asked' = NotAsked
       ELSE Answer("ask", question, WEB_TOP_K)
    /\ merge_in' = NoMerge
    /\ UNCHANGED <<sessionFrame, emb, index_built, num_passages, index_file, passages_file>>

\* app.py lines 68-85: one round of interactive_query_loop on the emb of main()
InteractiveQuery(q) ==
    /\ emb.held
    /\ IF q = ""
       THEN handler' = Ran("cli", "quit") /\ asked' = NotAsked
       ELSE Answer("cli", q, CLI_TOP_K)
    /\ merge_in' = NoMerge
    /\ UNCHANGED <<sessionFrame, emb, index_built, num_passages, index_file, passages_file>>

\* A failing run ends the same way whatever the passages are, empty or not
FailSamples == {<<>>, <<"a">>}

SessionNext ==
    \/ \E labels \in SeqsUpTo(UploadLabels, MaxPassages) : BuildFromUploads(labels, "ok")
    \/ \E labels \in FailSamples,
          outcome \in {"ingest_fails", "encode_fails", "add_fails", "save_fails"} :
          BuildFromUploads(labels, outcome)
    \/ UploadNoFiles
    \/ UploadIncomplete
    \/ UploadLoadFails
    \/ \E ps \in SeqsUpTo(UploadLabels, MaxPassages), saved \in BOOLEAN : UploadAdopt(ps, saved)
    \/ \E ps \in SeqsUpTo(UploadLabels, MaxPassages), saved \in BOOLEAN :
          UploadMerge(ps, "ok", saved)
    \/ \E ps \in FailSamples, outcome \in BuildOutcomes \ {"ok"} :
          UploadMerge(ps, outcome, FALSE)
    \/ \E button \in {"save", "zip"}, saved \in BOOLEAN : SaveIndex(button, saved)
    \/ \E question \in AskQuestions, client_ok \in BOOLEAN : AskGemini(question, client_ok)
    \/ \E q \in AskQuestions : InteractiveQuery(q)

SpecSession == SessionInit /\ [][SessionNext]_vars

\* ------------------------------------------------------- chunker properties
\* The last k words of a text.
LastWords(text, k) == SubSeq(text, Len(text) - k + 1, Len(text))
\* The first k words of a text.
FirstWords(text, k) == SubSeq(text, 1, k)
\* floor(overlap_tokens / 1.3)
FloorOverlap == (10 * overlap_tokens) \div 13
\* max(1, floor(overlap_tokens / 1.3))
OverlapBound == IF FloorOverlap >= 1 THEN FloorOverlap ELSE 1

\* C1: with a positive max_tokens, the chunks before overlap, concatenated, are
\* the words of all input sentences in their original order, none dropped or
\* duplicated.
C1_ChunksReconstructText ==
    (cpc = "done" /\ max_tokens >= 1) =>
        Flatten(chunks) = Flatten(split_into_sentences(page_text))

\* C2: with a positive max_tokens, every chunk before overlap has a token count
\* (by the chunker's own tokens_length) of at most max_tokens.
C2_ChunksWithinMaxTokens ==
    (cpc = "done" /\ max_tokens >= 1) =>
        \A i \in 1..Len(chunks) : tokens_length(chunks[i], FALSE) <= max_tokens

\* C3: with a positive max_tokens, no passage returned by chunk_page_text has
\* an empty text.
C3_NoEmptyPassage ==
    (cpc = "done" /\ max_tokens >= 1) =>
        \A i \in 1..Len(results) : results[i].text # <<>>

\* C4 as claimed, on pages none of whose chunks is empty: with overlap_tokens > 0
\* and at least 2 chunks, chunk i > 0 begins with a non-empty suffix of chunk
\* i-1's pre-overlap words, of floor(overlap_tokens / 1.3) words, or all of
\* them if chunk i-1 has fewer.
C4_OverlapFromPreOverlapChunk ==
    (/\ cpc = "done" /\ overlap_tokens > 0 /\ Len(chunks) >= 2
     /\ \A i \in 1..Len(chunks) : chunks[i] # <<>>) =>
        \A i \in 2..Len(chunks) :
            LET k == Min(FloorOverlap, Len(chunks[i-1]))
            IN /\ k >= 1
               /\ Len(results[i].text) >= k
               /\ FirstWords(results[i].text, k) = LastWords(chunks[i-1], k)

\* C4 as amended: with overlap_tokens > 0 and at least 2 chunks, the final text
\* of chunk i > 0 is the last max(1, floor(overlap_tokens / 1.3)) words of chunk
\* i-1's final (already overlapped) text, or all of its words if it has fewer,
\* followed by chunk i's own pre-overlap words.
C4_OverlapFromFinalChunk ==
    (cpc = "done" /\ overlap_tokens > 0 /\ Len(chunks) >= 2) =>
        /\ Len(results) = Len(chunks)
        /\ \A i \in 2..Len(chunks) :
            LET prev == results[i-1].text
                k == Min(OverlapBound, Len(prev))
            IN results[i].text = LastWords(prev, k) \o chunks[i]

\* C4 witness: the third chunk's prefix reaches past the one-word second chunk
\* into words the second chunk took from the first.
C4_Witness ==
    /\ cpc = "done" /\ overlap_tokens = 3 /\ Len(chunks) >= 3
    /\ Len(chunks[1]) >= 2 /\ Len(chunks[2]) = 1
    /\ Len(results[3].text) = Len(chunks[3]) + 2

\* C5: chunk 0 is returned unmodified, a single chunk is returned unmodified,
\* and every later chunk ends with its own pre-overlap words and has at most
\* max(1, floor(overlap_tokens / 1.3)) words prepended.
C5_OverlapBounded ==
    cpc = "done" =>
        /\ Len(results) = Len(chunks)
        /\ Len(chunks) >= 1 => results[1].text = chunks[1]
        /\ \A i \in 2..Len(chunks) :
            /\ Len(results[i].text) >= Len(chunks[i])
            /\ LastWords(results[i].text, Len(chunks[i])) = chunks[i]
            /\ Len(results[i].text) - Len(chunks[i]) <= OverlapBound

\* C5 witness: a third chunk that follows an already overlapped second chunk
\* longer than the overlap, and gained exactly the bound.
C5_Witness ==
    /\ cpc = "done" /\ overlap_tokens = 3 /\ Len(chunks) >= 3
    /\ Len(results[2].text) > Len(chunks[2]) /\ Len(results[2].text) > 2
    /\ Len(results[3].text) = Len(chunks[3]) + 2

\* -------------------------------------------------------- ingest properties
\* C6: during one ingest_files call no PDF is rasterized more than once.
C6_RasterizedAtMostOnce ==
    \A i \in 1..Len(fs) : raster_calls[i] <= 1

\* C7: an existing file of an unsupported format does not abort the batch: the
\* call never ends in the exception raised on that file.
C7_UnsupportedFileSkipped ==
    (\E i \in 1..Len(fs) : fs[i].kind = "other") => ipc # "raised"

\* The text a page is chunked from: its selectable text when that path is
\* taken and the page has some, else what the OCR reads from its image.
EffectiveText(f, pg) ==
    IF use_selectable_text /\ PYMUPDF_AVAILABLE /\ pg.sel # <<>> THEN pg.sel ELSE pg.ocr

RECURSIVE PagesChunks(_, _, _)
\* The chunk sequences of pages n.. of document i, in page order.
PagesChunks(f, i, n) ==
    IF n > Len(f.pages) THEN <<>>
    ELSE Chunked(EffectiveText(f, f.pages[n]), i, n) \o PagesChunks(f, i, n + 1)

RECURSIVE DocsChunks(_)
\* The chunk sequences of documents i.. in input order; a missing path gives none.
DocsChunks(i) ==
    IF i > Len(fs) THEN <<>>
    ELSE (CASE fs[i].kind = "pdf" -> PagesChunks(fs[i], i, 1)
            [] fs[i].kind = "image" -> Chunked(fs[i].ocr, i, 1)
            [] OTHER -> <<>>) \o DocsChunks(i + 1)

\* C8: what ingest_files returns is the concatenation of the chunk sequences of
\* the existing documents in input order, then page order, then chunk order, a
\* missing path contributing nothing; and a batch of documents and missing
\* paths alone always gets there (the call does not raise).
C8_IngestIsConcatenation ==
    /\ ipc = "returned" => chunks_meta = DocsChunks(1)
    /\ (\A i \in 1..Len(fs) : fs[i].kind # "other") => ipc # "raised"

\* C8 witness: a missing path followed by a two-page PDF whose pages give
\* several chunks each.
C8_Witness ==
    /\ ipc = "returned" /\ Len(fs) = 2
    /\ fs[1].kind = "missing" /\ fs[2].kind = "pdf" /\ Len(fs[2].pages) = 2
    /\ Len(chunks_meta) >= 4
    /\ chunks_meta[1].source = Name(2)
    /\ chunks_meta[Len(chunks_meta)].page = 2

\* ------------------------------------------------ EmbeddingsIndex properties
\* C9: in every reachable state the number of stored passages equals the
\* number of vectors in the index, and vector i is the one of passages[i].
C9_PassagesMatchVectors ==
    /\ VectorCount(index) = Len(passages)
    /\ \A i \in 1..Len(passages) : index.vectors[i] = Embed(passages[i])

\* C10: a build or load call that fails leaves self.passages and self.index
\* exactly as they were before the call.
C10_FailedCallChangesNothing ==
    [][(last_op' \in {"build", "load"} /\ last_result' # "ok")
          => (passages' = passages /\ index' = index)]_vars

\* C11: on an EmbeddingsIndex on which no build or load has succeeded, every
\* query and save fails with the not-built error (also after failed calls), and
\* build with an empty sequence fails with the empty-input error.
C11_NotBuiltUntilPopulated ==
    /\ (populated = "no" /\ last_op \in {"query", "save"}) => last_result = "RuntimeError"
    /\ (last_op = "build" /\ last_args.ps = <<>>) => last_result = "ValueError"

\* The ids of a query's results, in order.
Ids(r) == [i \in 1..Len(r) |-> r[i].id]

\* C12: after save, a load of the two files into a new EmbeddingsIndex gives
\* the passages of the saved object in the same order, and for every question
\* and top_k the same result ids in the same order as the saved object.
C12_SaveLoadRoundTrip ==
    (last_op = "load" /\ last_result = "ok" /\ populated = "load") =>
        /\ passages = saved_obj.passages
        /\ \A question \in Questions, top_k \in 1..MaxTopK :
              Ids(QueryResult(index.vectors, passages, question, top_k))
                = Ids(QueryResult(saved_obj.vectors, saved_obj.passages, question, top_k))

\* A new object has loaded what a consistent index of two different passages saved.
C12_Witness ==
    /\ last_op = "load" /\ last_result = "ok" /\ populated = "load"
    /\ Len(passages) = 2 /\ passages[1] # passages[2]
    /\ index.vectors = Encode(passages)
    /\ saved_obj.passages = passages

\* C13: a query on an index of N passages returns at most min(top_k, N)
\* results in descending score order, each with an id in [0, N) and the passage
\* stored under that id; the padding ids of the search never appear.
C13_QueryResultsWellFormed ==
    (last_op = "query" /\ last_result = "ok") =>
        /\ Len(retrieved) <= Min(last_args.top_k, Len(passages))
        /\ \A i \in 1..Len(retrieved) :
              /\ retrieved[i].id \in 0..(Len(passages) - 1)
              /\ retrieved[i].passage = passages[retrieved[i].id + 1]
        /\ \A i, j \in 1..Len(retrieved) :
              i < j => retrieved[i].score >= retrieved[j].score

\* A query with top_k above N on two passages returned both, the better one
\* first although it is stored second.
C13_Witness ==
    /\ last_op = "query" /\ last_result = "ok"
    /\ Len(passages) = 2 /\ last_args.top_k > 2
    /\ Len(retrieved) = 2
    /\ retrieved[1].id = 1 /\ retrieved[1].score > retrieved[2].score

\* C16: the passages chunk_page_text returns are numbered 1, 2, ..., n in
\* order, each carries the given source and page, each label is the header
\* "(source:<source> page:<page> chunk:<chunk_index>)", a newline and the
\* passage text; an empty or whitespace-only page text gives no passage.
C16_PassagesNumberedAndLabelled ==
    cpc = "done" =>
        /\ \A i \in 1..Len(results) :
              /\ results[i].chunk_index = i
              /\ results[i].source = "doc.pdf" /\ results[i].page = 1
              /\ results[i].label =
                    <<"(source:", "doc.pdf", " page:", 1, " chunk:", i, ")", "\n",
                      results[i].text>>
        /\ page_text = <<>> => results = <<>>

\* A page that gave three passages.
C16_Witness ==
    /\ cpc = "done" /\ max_tokens >= 1 /\ Len(results) = 3
    /\ results[3].chunk_index = 3
    /\ \A i \in 1..3 : results[i].text # <<>>

\* ------------------------------------------------------ front-end properties
\* The position of the first occurrence of p in q.
FirstPos(q, p) == CHOOSE i \in 1..Len(q) : q[i] = p /\ \A j \in 1..(i - 1) : q[j] # p

\* C14: a merge of a non-empty index in memory with an uploaded one builds the
\* new index over the existing passages followed by the uploaded ones without
\* exact duplicates: no passage twice, every passage of either input present,
\* in the order of their first occurrences.
C14_MergeDedupesKeepingFirst ==
    handler = Ran("upload", "merged") =>
        LET combined == merge_in.existing \o merge_in.uploaded
            merged == emb.passages
        IN /\ \A i, j \in 1..Len(merged) : i # j => merged[i] # merged[j]
           /\ {merged[i] : i \in 1..Len(merged)} = {combined[i] : i \in 1..Len(combined)}
           /\ \A i, j \in 1..Len(merged) :
                 i < j => FirstPos(combined, merged[i]) < FirstPos(combined, merged[j])
           /\ emb.index.vectors = Encode(merged)

\* [a, b] merged with [b, c] gave [a, b, c].
C14_Witness ==
    /\ handler = Ran("upload", "merged")
    /\ merge_in = [existing |-> <<"a", "b">>, uploaded |-> <<"b", "c">>]
    /\ emb.passages = <<"a", "b", "c">>

\* C15: when a question is answered, the generation service is not called if
\* the query returned no passage, and otherwise is called exactly once, with
\* the question and the retrieved passages in retrieved (descending score) order.
C15_GenerationOnlyOnResults ==
    handler.result \in {"no_passages", "answered"} =>
        /\ asked.retrieved = <<>> => asked.calls = <<>>
        /\ asked.retrieved # <<>> =>
              /\ Len(asked.calls) = 1
              /\ asked.calls[1].question = asked.question
              /\ asked.calls[1].passages =
                    [i \in 1..Len(asked.retrieved) |-> asked.retrieved[i].passage]
        /\ \A i, j \in 1..Len(asked.retrieved) :
              i < j => asked.retrieved[i].score >= asked.retrieved[j].score

\* The web front end asked "b" of the index [a, b] and sent [b, a] to generation.
C15_Witness ==
    /\ handler = Ran("ask", "answered")
    /\ emb.passages = <<"a", "b">>
    /\ asked.question = "b"
    /\ Len(asked.calls) = 1 /\ asked.calls[1].passages = <<"b", "a">>

\* C17: in the session, index_built holds only while an index object is held,
\* num_passages is the number of passages of the held index, and a merge whose
\* rebuild fails leaves the held index, index_built and num_passages as they were.
C17_SessionStateConsistent ==
    /\ [](index_built => emb.held)
    /\ [](emb.held => num_passages = Len(emb.passages))
    /\ [][handler'.result = "merge_failed" => UNCHANGED <<emb, index_built, num_passages>>]_vars

\* A merge into a held index of two passages failed in the rebuild.
C17_Witness ==
    /\ handler = Ran("upload", "merge_failed")
    /\ index_built /\ emb.held
    /\ Len(emb.passages) = 2 /\ num_passages = 2

====
